---- MODULE Spec2Model ----
(***************************************************************************)
(* Model of the contract routes of the NGO contract application            *)
(* (app/routes/contract.py, app/routes/reports.py, app/models/contract.py).*)
(*                                                                         *)
(* Text is a sequence of one-character strings, so that strip(), the       *)
(* regular expressions and float() are computed character by character.   *)
(* Numbers parsed by float() are kept in thousandths (fixed point).        *)
(***************************************************************************)
EXTENDS Integers, Sequences, FiniteSets, TLC

\* ------------------------------------------------------------------ bounds
\* Largest number of contract rows the database holds in a run.
MaxContracts == 2
\* Largest number of contract rows when every form of the form table is tried.
MaxFormContracts == 1
\* Largest number of create requests in progress at the same time.
MaxInflight == 2

\* ------------------------------------------------------------- characters
Digit == {"0", "1", "2", "3", "4", "5", "6", "7", "8", "9"}
Upper == {"A", "B", "C", "D", "E", "F", "G", "H", "I", "J", "K", "L", "M",
          "N", "O", "P", "Q", "R", "S", "T", "U", "V", "W", "X", "Y", "Z"}
Lower == {"a", "b", "c", "d", "e", "f", "g", "h", "i", "j", "k", "l", "m",
          "n", "o", "p", "q", "r", "s", "t", "u", "v", "w", "x", "y", "z"}
Letter == Upper \cup Lower
\* Python's str.strip() and the regex class \s: whitespace.
Space == {" ", "\t", "\n"}

\* Python's None in a text column: a value no text is equal to.
None == <<"None">>

Max(S) == CHOOSE x \in S : \A y \in S : y <= x
Min(S) == CHOOSE x \in S : \A y \in S : x <= y
Abs(x) == IF x < 0 THEN -x ELSE x

AllIn(s, S) == \A i \in 1..Len(s) : s[i] \in S

\* str.strip(): drop the whitespace at both ends.
strip(s) ==
  LET keep == {i \in 1..Len(s) : s[i] \notin Space}
  IN  IF keep = {} THEN <<>> ELSE SubSeq(s, Min(keep), Max(keep))

\* Last index j >= i-1 such that s[i..j] lies in S (a greedy S* from i).
RunEnd(s, i, S) ==
  LET js == {j \in i..Len(s) : \A k \in i..j : s[k] \in S}
  IN  IF js = {} THEN i - 1 ELSE Max(js)

\* ----------------------------------------------------------------- float()
DigitVal(c) == CHOOSE n \in 0..9 : <<"0","1","2","3","4","5","6","7","8","9">>[n + 1] = c

RECURSIVE DigitsVal(_)
DigitsVal(s) == IF Len(s) = 0 THEN 0
                ELSE 10 * DigitsVal(SubSeq(s, 1, Len(s) - 1)) + DigitVal(s[Len(s)])

\* The first three decimals as thousandths.
FracVal(s) ==
  LET d(i) == IF i <= Len(s) THEN DigitVal(s[i]) ELSE 0
  IN  100 * d(1) + 10 * d(2) + d(3)

\* An unsigned decimal literal: digits, at most one point, one digit at least.
\* ok = FALSE is Python's ValueError.  val is the number in thousandths.
DotPlace(u) == Min({i \in 1..Len(u) : u[i] = "."} \cup {Len(u) + 1})
Decimal(u) ==
  IF /\ AllIn(u, Digit \cup {"."})
     /\ Cardinality({i \in 1..Len(u) : u[i] = "."}) <= 1
     /\ \E i \in 1..Len(u) : u[i] \in Digit
  THEN [ok |-> TRUE,
        val |-> 1000 * DigitsVal(SubSeq(u, 1, DotPlace(u) - 1))
                + FracVal(SubSeq(u, DotPlace(u) + 1, Len(u)))]
  ELSE [ok |-> FALSE, val |-> 0]

Negated(r) == [ok |-> r.ok, val |-> -r.val]

\* float(text) for decimal literals: [sign] digits [. digits] | [sign] . digits.
ParseStripped(s) ==
  IF Len(s) > 0 /\ s[1] = "-" THEN Negated(Decimal(Tail(s)))
  ELSE IF Len(s) > 0 /\ s[1] = "+" THEN Decimal(Tail(s))
  ELSE Decimal(s)

ParseFloat(text) == ParseStripped(strip(text))

\* ------------------------------------------------------ regular expressions
\* re.match(r"NGOF/\d{4}-\d{3}", s): anchored at the start only.
NumberFormatRe(s) ==
  /\ Len(s) >= 13
  /\ SubSeq(s, 1, 5) = <<"N", "G", "O", "F", "/">>
  /\ \A i \in 6..9 : s[i] \in Digit
  /\ s[10] = "-"
  /\ \A i \in 11..13 : s[i] \in Digit

\* Python's $ also matches just before one trailing newline.
BeforeDollar(s) == IF Len(s) > 0 /\ s[Len(s)] = "\n" THEN SubSeq(s, 1, Len(s) - 1) ELSE s

\* re.match(r'^[a-zA-Z\s\.]+$', s)
NameRe(s) ==
  \/ Len(s) >= 1 /\ AllIn(s, Letter \cup Space \cup {"."})
  \/ Len(BeforeDollar(s)) >= 1 /\ AllIn(BeforeDollar(s), Letter \cup Space \cup {"."})

\* re.match(r'^[a-zA-Z\s]+$', s)
PositionRe(s) ==
  \/ Len(s) >= 1 /\ AllIn(s, Letter \cup Space)
  \/ Len(BeforeDollar(s)) >= 1 /\ AllIn(BeforeDollar(s), Letter \cup Space)

\* re.match(r'^[A-Z0-9\-]+$', s)
TaxCodeRe(s) ==
  Len(BeforeDollar(s)) >= 1 /\ AllIn(BeforeDollar(s), Upper \cup Digit \cup {"-"})

\* \d+\.?\d* : where the number ends when its integer part ends at iEnd.
NumberEnd(s, iEnd) ==
  IF iEnd < Len(s) /\ s[iEnd + 1] = "." THEN RunEnd(s, iEnd + 2, Digit) ELSE iEnd

\* \%\) right after position e.
PercentCloses(s, e) == e + 2 <= Len(s) /\ s[e + 1] = "%" /\ s[e + 2] = ")"

PercentFrom(s, i, iEnd) ==
  IF s[i] = "(" /\ iEnd >= i + 1 /\ PercentCloses(s, NumberEnd(s, iEnd))
  THEN NumberEnd(s, iEnd)
  ELSE 0

\* re.search(r'\((\d+\.?\d*)\%\)', s) tried at position i: the end of the
\* number when the pattern matches there, 0 when it does not.
PercentEnd(s, i) == PercentFrom(s, i, RunEnd(s, i + 1, Digit))

\* The leftmost match: found, and the text of group 1.
PercentSearch(s) ==
  LET hits == {i \in 1..Len(s) : PercentEnd(s, i) > 0}
  IN  IF hits = {}
      THEN [found |-> FALSE, group |-> <<>>]
      ELSE [found |-> TRUE, group |-> SubSeq(s, Min(hits) + 1, PercentEnd(s, Min(hits)))]

\* re.match(r'^\+?\d{1,4}([-.\s]?\d{1,4}){2,3}$', s): k more groups from position i.
RECURSIVE PhoneGroups(_, _, _)
PhoneGroups(s, i, k) ==
  IF k = 0 THEN i = Len(s) + 1
  ELSE \E sep \in {0, 1}, n \in 1..4 :
         /\ i + sep + n - 1 <= Len(s)
         /\ sep = 1 => s[i] \in {"-", "."} \cup Space
         /\ \A j \in (i + sep)..(i + sep + n - 1) : s[j] \in Digit
         /\ PhoneGroups(s, i + sep + n, k - 1)

PhoneMatch(s) ==
  LET p == IF Len(s) > 0 /\ s[1] = "+" THEN 2 ELSE 1
  IN  \E n \in 1..4, k \in {2, 3} :
        /\ p + n - 1 <= Len(s)
        /\ \A j \in p..(p + n - 1) : s[j] \in Digit
        /\ PhoneGroups(s, p + n, k)

PhoneRe(s) == PhoneMatch(s) \/ PhoneMatch(BeforeDollar(s))

\* re.match(r'^[a-zA-Z0-9._%+-]+@[a-zA-Z0-9.-]+\.[a-zA-Z]{2,}$', s)
EmailMatch(s) ==
  \E a \in 2..Len(s), d \in 1..Len(s) :
    /\ s[a] = "@"
    /\ AllIn(SubSeq(s, 1, a - 1), Letter \cup Digit \cup {".", "_", "%", "+", "-"})
    /\ d > a + 1
    /\ s[d] = "."
    /\ AllIn(SubSeq(s, a + 1, d - 1), Letter \cup Digit \cup {".", "-"})
    /\ Len(s) - d >= 2
    /\ AllIn(SubSeq(s, d + 1, Len(s)), Letter)

EmailRe(s) == EmailMatch(s) \/ EmailMatch(BeforeDollar(s))

\* --------------------------------------------------------------- strptime
DaysIn(y, m) ==
  IF m \in {4, 6, 9, 11} THEN 30
  ELSE IF m = 2
       THEN IF y % 4 = 0 /\ (y % 100 # 0 \/ y % 400 = 0) THEN 29 ELSE 28
       ELSE 31

\* A calendar date: num orders the dates.
Ymd(y, m, d) ==
  IF y >= 1 /\ m \in 1..12 /\ d >= 1 /\ d <= DaysIn(y, m)
  THEN [ok |-> TRUE, num |-> 10000 * y + 100 * m + d]
  ELSE [ok |-> FALSE, num |-> 0]

\* %Y-%m-%d with the month ending at mEnd and the day at dEnd.
DateOf(s, mEnd, dEnd) ==
  IF /\ Len(s) >= 8
     /\ AllIn(SubSeq(s, 1, 4), Digit)
     /\ s[5] = "-"
     /\ mEnd \in {6, 7}
     /\ mEnd < Len(s) /\ s[mEnd + 1] = "-"
     /\ dEnd \in {mEnd + 2, mEnd + 3}
     /\ dEnd = Len(s)
  THEN Ymd(DigitsVal(SubSeq(s, 1, 4)), DigitsVal(SubSeq(s, 6, mEnd)),
           DigitsVal(SubSeq(s, mEnd + 2, dEnd)))
  ELSE [ok |-> FALSE, num |-> 0]

DateFrom(s, mEnd) == DateOf(s, mEnd, RunEnd(s, mEnd + 2, Digit))

\* datetime.strptime(s, '%Y-%m-%d'): ok = FALSE is ValueError.
ParseDate(s) == DateFrom(s, RunEnd(s, 6, Digit))

\* ------------------------------------------------- texts a form may carry
Empty == <<>>
Num001 == <<"N", "G", "O", "F", "/", "2", "0", "2", "5", "-", "0", "0", "1">>
Num002 == <<"N", "G", "O", "F", "/", "2", "0", "2", "5", "-", "0", "0", "2">>
NumPadded == <<" ", "N", "G", "O", "F", "/", "2", "0", "2", "5", "-", "0", "0", "1">>
NumTrailing == <<"N", "G", "O", "F", "/", "2", "0", "2", "5", "-", "0", "0", "1", "1">>
NumShort == <<"N", "G", "O", "F", "/", "2", "5", "-", "1">>
Tax0 == <<"0">>
Tax15 == <<"1", "5">>
Tax7 == <<"7">>
NotANumber == <<"a", "b", "c">>
Fee1000 == <<"1", "0", "0", "0">>
FeeNegative == <<"-", "1", "0", "0">>
FeeZero == <<"0">>
TinGood == <<"K", "0", "0", "1", "-", "9">>
TinLower == <<"k", "0", "0", "1">>
OrgForum == <<"N", "G", "O", " ", "F", "o", "r", "u", "m">>
OrgCoop == <<"O", "r", "g", "-", "1">>
NameSok == <<"M", "r", ".", " ", "S", "o", "k">>
NameDara == <<"M", "s", ".", " ", "D", "a", "r", "a">>
NameDigit == <<"S", "0", "k">>
PosDirector == <<"D", "i", "r", "e", "c", "t", "o", "r">>
PosDigit == <<"D", "i", "r", "-", "1">>
AddrPP == <<"P", "h", "n", "o", "m", " ", "P", "e", "n", "h">>
PhoneGood == <<"0", "1", "2", " ", "8", "4", "5", " ", "0", "9", "1">>
PhoneShort == <<"1", "2">>
EmailGood == <<"a", "@", "b", ".", "o", "r", "g">>
EmailNoTld == <<"a", "@", "b">>
DateJan == <<"2", "0", "2", "5", "-", "0", "1", "-", "0", "1">>
DateJun == <<"2", "0", "2", "5", "-", "0", "6", "-", "3", "0">>
DateFeb30 == <<"2", "0", "2", "5", "-", "0", "2", "-", "3", "0">>
DescFull == <<"(", "1", "0", "0", "%", ")">>
DescHalf == <<"P", "a", "r", "t", " ", "(", "5", "0", "%", ")">>
DescSixty == <<"P", "a", "r", "t", " ", "(", "6", "0", "%", ")">>
DescNoPercent == <<"D", "e", "p", "o", "s", "i", "t">>
DescNear == <<"(", "9", "9", ".", "9", "9", "5", "%", ")">>
Deliverable == <<"R", "e", "p", "o", "r", "t">>
TitleStudy == <<"S", "t", "u", "d", "y">>
Rejected == <<"R", "E", "J", "E", "C", "T", "E", "D">>
Search002 == <<"0", "0", "2">>
SelectNew == <<"n", "e", "w">>
\* 51 characters: one more than the VAT TIN check allows.
TinLong == [i \in 1..51 |-> "A"]

\* ------------------------------------------------------------------- users
\* flask_login's current_user: the account a request runs as.
Users == {[id |-> 1, role |-> "admin"], [id |-> 2, role |-> "staff"], [id |-> 3, role |-> "staff"]}

\* current_user.has_role(name)
has_role(u, name) == u.role = name

\* User.query.filter(User.role.has(name='admin')).all()
Admins == {u \in Users : u.role = "admin"}

\* -------------------------------------------------------- form processing
\* request.form of a POST to create or update, as the browser sends it.
BaseForm ==
  [project_title |-> TitleStudy,
   contract_number |-> Num001,
   output_description |-> Deliverable,
   tax_percentage |-> Tax15,
   deduct_tax_code |-> Empty,
   vat_organization_name |-> Empty,
   organization_name |-> OrgForum,
   party_b_select |-> SelectNew,
   party_b_signature_name |-> NameDara,
   party_b_signature_name_confirm |-> NameDara,
   agreement_start_date |-> DateJan,
   agreement_end_date |-> DateJun,
   total_fee_usd |-> Fee1000,
   party_a |-> << [name |-> NameSok, position |-> PosDirector, address |-> AddrPP] >>,
   party_a_signer |-> NameSok,
   installments |-> << [description |-> DescFull, deliverables |-> Deliverable, dueDate |-> DateJun] >>,
   focal |-> << [name |-> NameSok, position |-> PosDirector, phone |-> PhoneGood, email |-> EmailGood] >>]

StripRow(r) == [k \in DOMAIN r |-> strip(r[k])]
RowComplete(r) == \A k \in DOMAIN r : Len(strip(r[k])) > 0
\* [ {stripped row} for row in zip(...) if every column of it is non-empty ]
CompleteRows(rows) ==
  LET kept == SelectSeq(rows, RowComplete)
  IN  [i \in 1..Len(kept) |-> StripRow(kept[i])]

party_b_name(form) ==
  IF strip(form.party_b_select) = SelectNew
  THEN strip(form.party_b_signature_name)
  ELSE strip(form.party_b_select)

\* float(request.form.get(key, default).strip() or default) raises ValueError.
FloatRaises(form) ==
  \E text \in {form.tax_percentage, form.total_fee_usd} :
    strip(text) # Empty /\ ~ParseFloat(text).ok

\* float(request.form.get(key, default).strip() or default), in thousandths.
FloatOr(text, default) == IF strip(text) = Empty THEN default ELSE ParseFloat(text).val

\* form_data, with the row lists the handler adds to it before it validates.
FormData(form) ==
  [project_title |-> strip(form.project_title),
   contract_number |-> strip(form.contract_number),
   output_description |-> strip(form.output_description),
   tax_percentage |-> FloatOr(form.tax_percentage, 15000),
   deduct_tax_code |-> strip(form.deduct_tax_code),
   vat_organization_name |-> strip(form.vat_organization_name),
   organization_name |-> strip(form.organization_name),
   party_b_signature_name |-> party_b_name(form),
   party_b_signature_name_confirm |-> strip(form.party_b_signature_name_confirm),
   agreement_start_date |-> strip(form.agreement_start_date),
   agreement_end_date |-> strip(form.agreement_end_date),
   total_fee_usd |-> FloatOr(form.total_fee_usd, 0),
   party_a_signer |-> strip(form.party_a_signer),
   party_a_info |-> CompleteRows(form.party_a),
   payment_installments |-> CompleteRows(form.installments),
   focal_person_info |-> CompleteRows(form.focal)]

\* ---------------------------------------------------------------- validation
Ok == "ok"

\* Contract.deleted_at of a contract that is not deleted (nullable, no default).
NoTime == 0

\* Checks made one after the other, each returning at its flash: the message
\* of the first that fails.
FirstMessage(msgs) ==
  LET bad == {i \in 1..Len(msgs) : msgs[i] # Ok}
  IN  IF bad = {} THEN Ok ELSE msgs[Min(bad)]

\* create: the VAT TIN and organization name checks made when the tax is 0%.
CreateVatMessage(fd) ==
  IF fd.tax_percentage # 0 THEN Ok
  ELSE IF Len(fd.deduct_tax_code) = 0
       THEN "VAT TIN is required when tax percentage is 0%."
  ELSE IF ~TaxCodeRe(fd.deduct_tax_code)
       THEN "VAT TIN must contain only uppercase letters, numbers, and hyphens."
  ELSE IF Len(fd.deduct_tax_code) > 50
       THEN "VAT TIN must not exceed 50 characters."
  ELSE IF Len(fd.vat_organization_name) = 0
       THEN "Name of Organization is required when tax percentage is 0%."
  ELSE IF Len(fd.vat_organization_name) > 255
       THEN "Name of Organization must not exceed 255 characters."
  ELSE Ok

\* update: the same fields, checked in another order and by other rules.
UpdateVatMessage(fd) ==
  IF fd.tax_percentage # 0 THEN Ok
  ELSE IF Len(fd.vat_organization_name) = 0
       THEN "VAT Organization Name is required when tax percentage is 0%."
  ELSE IF ~NameRe(fd.vat_organization_name)
       THEN "VAT Organization Name must contain only letters, spaces, and periods."
  ELSE IF Len(fd.vat_organization_name) > 100
       THEN "VAT Organization Name must not exceed 100 characters."
  ELSE IF Len(fd.deduct_tax_code) = 0
       THEN "Deduct TAX Code is required when tax percentage is 0%."
  ELSE IF ~TaxCodeRe(fd.deduct_tax_code)
       THEN "Deduct TAX Code must contain only uppercase letters, numbers, and hyphens."
  ELSE IF Len(fd.deduct_tax_code) > 50
       THEN "Deduct TAX Code must not exceed 50 characters."
  ELSE Ok

\* for field, message in required_fields: if not form_data[field]
RequiredMessage(fd) ==
  IF Len(fd.project_title) = 0 THEN "Project title is required."
  ELSE IF Len(fd.contract_number) = 0 THEN "Contract number is required."
  ELSE IF Len(fd.output_description) = 0 THEN "Output description is required."
  ELSE IF Len(fd.organization_name) = 0 THEN "Organization name is required."
  ELSE IF Len(fd.party_b_signature_name) = 0 THEN "Party B signature name is required."
  ELSE IF Len(fd.agreement_start_date) = 0 THEN "Agreement start date is required."
  ELSE IF Len(fd.agreement_end_date) = 0 THEN "Agreement end date is required."
  ELSE IF fd.total_fee_usd = 0 THEN "Total fee USD is required."
  ELSE Ok

\* The agreement dates: both parse, and the end is not before the start.
DatesMessage(fd) ==
  LET start_date == ParseDate(fd.agreement_start_date)
      end_date   == ParseDate(fd.agreement_end_date)
  IN  IF Len(fd.agreement_start_date) = 0 \/ Len(fd.agreement_end_date) = 0 THEN Ok
      ELSE IF ~end_date.ok \/ ~start_date.ok
           THEN "Invalid date format for agreement start or end date."
      ELSE IF end_date.num < start_date.num
           THEN "Agreement end date must be after start date."
      ELSE Ok

\* One turn of the installment loop.  The flashed text goes on with the
\* description (the due date) of the installment.
InstallmentMessage(inst) ==
  LET match == PercentSearch(inst.description)
  IN  IF ~match.found
      THEN "Invalid installment description format: "
      ELSE IF ~ParseFloat(match.group).ok
           THEN "Invalid percentage in installment description: "
      ELSE IF ~ParseDate(inst.dueDate).ok
           THEN "Invalid due date for installment: "
      ELSE Ok

\* for installment in form_data['payment_installments']: the first row that fails.
InstallmentMessages(rows) == FirstMessage([i \in 1..Len(rows) |-> InstallmentMessage(rows[i])])

\* total_percentage, in thousandths of a percent.
RECURSIVE total_percentage(_)
total_percentage(insts) ==
  IF Len(insts) = 0 THEN 0
  ELSE total_percentage(SubSeq(insts, 1, Len(insts) - 1))
       + ParseFloat(PercentSearch(insts[Len(insts)].description).group).val

\* Only a sum below 100 refused.
PercentageShort(insts) == total_percentage(insts) < 100000 - 10

\* abs(total_percentage - 100.0) > 0.01 (the sums tried are off the boundary,
\* where binary floating point and thousandths may disagree).
PercentageOff(insts) == Abs(total_percentage(insts) - 100000) > 10

InstallmentsMessage(fd) ==
  FirstMessage(<<
    InstallmentMessages(fd.payment_installments),
    IF PercentageOff(fd.payment_installments)
    THEN "Total percentage of payment installments must equal 100%." ELSE Ok >>)

\* One turn of the focal person loop; the flashed text goes on with the value.
FocalPersonMessage(person) ==
  IF ~NameRe(person.name) THEN "Invalid focal person name: "
  ELSE IF ~PositionRe(person.position) THEN "Invalid focal person position: "
  ELSE IF ~PhoneRe(person.phone) THEN "Invalid focal person phone: "
  ELSE IF ~EmailRe(person.email) THEN "Invalid focal person email: "
  ELSE Ok

\* for person in form_data['focal_person_info']: the first row that fails.
FocalPersonMessages(rows) == FirstMessage([i \in 1..Len(rows) |-> FocalPersonMessage(rows[i])])

\* One turn of the Party A loop; the flashed text goes on with the value.
PartyAMessage(person) ==
  IF ~NameRe(person.name) THEN "Invalid Party A name: "
  ELSE IF ~PositionRe(person.position) THEN "Invalid Party A position: "
  ELSE IF Len(person.address) = 0 THEN "Party A address is required."
  ELSE Ok

\* for person in form_data['party_a_info']: the first row that fails.
PartyAMessages(rows) == FirstMessage([i \in 1..Len(rows) |-> PartyAMessage(rows[i])])

\* party_a_signer not in [p['name'] for p in party_a_info]
SignerListed(fd) ==
  \E i \in 1..Len(fd.party_a_info) : fd.party_a_info[i].name = fd.party_a_signer

\* A range test in place of the list.
TaxInRange(tax) == tax >= 0 /\ tax <= 20000

\* tax_percentage not in [0, 5, 10, 15, 20]
TaxAllowed(tax) == tax \in {0, 5000, 10000, 15000, 20000}

\* The duplicate query left out.
CreateDuplicateUnchecked(db, number) == FALSE

\* create: Contract.query.filter(contract_number == n, deleted_at == None).first()
CreateDuplicate(db, number) ==
  \E c \in db : c.contract_number = number /\ c.deleted_at = NoTime

\* update: the same query with Contract.id != contract_id.
UpdateDuplicate(db, number, contract_id) ==
  \E c \in db : c.contract_number = number /\ c.id # contract_id /\ c.deleted_at = NoTime

\* The checks both handlers make after the VAT block, up to the number format.
BeforeDuplicateMessage(fd) ==
  FirstMessage(<<
    IF Len(fd.payment_installments) = 0
    THEN "At least one payment installment is required." ELSE Ok,
    IF Len(fd.focal_person_info) = 0
    THEN "At least one focal person is required." ELSE Ok,
    RequiredMessage(fd),
    IF fd.party_b_signature_name # fd.party_b_signature_name_confirm
    THEN "Party B signature name confirmation does not match." ELSE Ok,
    IF ~NumberFormatRe(fd.contract_number)
    THEN "Contract number must follow the format NGOF/YYYY-NNN (e.g., NGOF/2025-005)."
    ELSE Ok >>)

\* The checks both handlers make after the duplicate check.
AfterDuplicateMessage(fd) ==
  FirstMessage(<<
    DatesMessage(fd),
    IF fd.total_fee_usd < 0 THEN "Total fee USD cannot be negative." ELSE Ok,
    IF ~TaxAllowed(fd.tax_percentage)
    THEN "Tax percentage must be one of 0, 5, 10, 15, or 20." ELSE Ok,
    InstallmentsMessage(fd),
    FocalPersonMessages(fd.focal_person_info),
    PartyAMessages(fd.party_a_info) >>)

\* The checks both handlers make before the VAT block.
PartyMessage(fd) ==
  IF Len(fd.party_a_info) = 0
  THEN "At least one Party A representative is required."
  ELSE IF Len(fd.party_a_signer) = 0 \/ ~SignerListed(fd)
       THEN "Please select a valid Party A signer from the list."
  ELSE IF Len(fd.party_b_signature_name) = 0 \/ ~NameRe(fd.party_b_signature_name)
       THEN "Party B signature name is required and must contain only letters, spaces, and periods."
  ELSE Ok

\* create: the first message of the checks made before the duplicate query.
CreateBefore(fd) ==
  FirstMessage(<< PartyMessage(fd), CreateVatMessage(fd), BeforeDuplicateMessage(fd) >>)

\* update: the first message of the checks made before the duplicate query.
UpdateBefore(fd) ==
  FirstMessage(<< PartyMessage(fd), UpdateVatMessage(fd), BeforeDuplicateMessage(fd) >>)

\* ------------------------------------------------------------------ queries
LowerOf(c) ==
  IF c \in Upper
  THEN LET U == <<"A","B","C","D","E","F","G","H","I","J","K","L","M",
                  "N","O","P","Q","R","S","T","U","V","W","X","Y","Z">>
           L == <<"a","b","c","d","e","f","g","h","i","j","k","l","m",
                  "n","o","p","q","r","s","t","u","v","w","x","y","z">>
       IN  L[CHOOSE i \in 1..26 : U[i] = c]
  ELSE c

\* column.ilike('%q%'): q occurs in the text, letter case ignored.
ilike(text, q) ==
  \E i \in 1..(Len(text) - Len(q) + 1) :
    \A k \in 1..Len(q) : LowerOf(text[i + k - 1]) = LowerOf(q[k])

\* The search filter of index, export_excel and export_excel_all.
SearchMatches(c, q) ==
  \/ Len(q) = 0
  \/ ilike(c.project_title, q)
  \/ ilike(c.contract_number, q)
  \/ ilike(c.party_b_signature_name, q)

\* The order of the characters a contract number is made of.
CharRank(c) ==
  LET order == <<" ", "-", "/", "0", "1", "2", "3", "4", "5", "6", "7", "8", "9",
                 "F", "G", "N", "O">>
      at == {i \in 1..Len(order) : order[i] = c}
  IN  IF at = {} THEN Len(order) + 1 ELSE Min(at)

RECURSIVE TextLess(_, _)
TextLess(a, b) ==
  IF Len(b) = 0 THEN FALSE
  ELSE IF Len(a) = 0 THEN TRUE
  ELSE IF a[1] = b[1] THEN TextLess(Tail(a), Tail(b))
  ELSE CharRank(a[1]) < CharRank(b[1])

Live(db) == {c \in db : c.deleted_at = NoTime}

\* Contract.query.filter(deleted_at == None).order_by(contract_number.desc()).first():
\* the ids of the rows it may return (none when no contract is live).
LastContract(db) ==
  {c.id : c \in {x \in Live(db) : \A y \in Live(db) : ~TextLess(x.contract_number, y.contract_number)}}

\* ---------------------------------------------------------------- the rows
\* The form's text stored whatever the tax is.
StoredVatAlways(tax, text) == text

\* deduct_tax_code / vat_organization_name as stored:
\* form_data[...] if form_data['tax_percentage'] == 0 else None
StoredVat(tax, text) == IF tax = 0 THEN text ELSE None

\* Contract(id=..., user_id=..., ..form_data..), created_at by default.
ContractOf(id, user_id, fd, now) ==
  [id |-> id,
   user_id |-> user_id,
   project_title |-> fd.project_title,
   contract_number |-> fd.contract_number,
   organization_name |-> fd.organization_name,
   party_a_info |-> fd.party_a_info,
   agreement_start_date |-> fd.agreement_start_date,
   agreement_end_date |-> fd.agreement_end_date,
   total_fee_usd |-> fd.total_fee_usd,
   tax_percentage |-> fd.tax_percentage,
   deduct_tax_code |-> StoredVat(fd.tax_percentage, fd.deduct_tax_code),
   vat_organization_name |-> StoredVat(fd.tax_percentage, fd.vat_organization_name),
   focal_person_info |-> fd.focal_person_info,
   party_a_signature_name |-> fd.party_a_signer,
   party_b_signature_name |-> fd.party_b_signature_name,
   output_description |-> fd.output_description,
   payment_installments |-> fd.payment_installments,
   created_at |-> now,
   deleted_at |-> NoTime]

\* The row stored without its owner (user_id left at 0).
NewContractUnowned(id, u, fd, now) == ContractOf(id, 0, fd, now)

\* create: id=str(uuid.uuid4()), user_id=current_user.id
NewContract(id, u, fd, now) == ContractOf(id, u.id, fd, now)

\* update: the assignments contract.<column> = form_data[...] before the commit.
UpdatedContract(c, fd) ==
  [c EXCEPT
   !.project_title = fd.project_title,
   !.contract_number = fd.contract_number,
   !.organization_name = fd.organization_name,
   !.party_a_info = fd.party_a_info,
   !.agreement_start_date = fd.agreement_start_date,
   !.agreement_end_date = fd.agreement_end_date,
   !.total_fee_usd = fd.total_fee_usd,
   !.tax_percentage = fd.tax_percentage,
   !.deduct_tax_code = StoredVat(fd.tax_percentage, fd.deduct_tax_code),
   !.vat_organization_name = StoredVat(fd.tax_percentage, fd.vat_organization_name),
   !.focal_person_info = fd.focal_person_info,
   !.party_a_signature_name = fd.party_a_signer,
   !.party_b_signature_name = fd.party_b_signature_name,
   !.output_description = fd.output_description,
   !.payment_installments = fd.payment_installments]

\* delete: contract.deleted_at = datetime.now()
DeletedContract(c, now) == [c EXCEPT !.deleted_at = now]

\* create: one Notification per admin, unread.
NewNotifications(u, contract) ==
  {[creator_id |-> u.id, recipient_id |-> a.id, related_contract_id |-> contract.id,
    is_read |-> FALSE] : a \in Admins}

\* Notification.query.filter_by(recipient_id=u.id, is_read=False).update({'is_read': True})
MarkRead(ns, u) ==
  {IF n.recipient_id = u.id THEN [n EXCEPT !.is_read = TRUE] ELSE n : n \in ns}

\* ------------------------------------------------------------ authorization
\* The deleted test left out.
IsDeletedNever(c) == FALSE

\* if contract.deleted_at is not None
IsDeleted(c) == c.deleted_at # NoTime

\* The ownership test left out.
UpdateForbiddenNever(u, c) == FALSE

\* update: not current_user.has_role('admin') and contract.user_id != current_user.id
UpdateForbidden(u, c) == ~has_role(u, "admin") /\ c.user_id # u.id
\* delete: the same test.
DeleteForbidden(u, c) == ~has_role(u, "admin") /\ c.user_id # u.id
\* view: the same test.
ViewForbidden(u, c) == ~has_role(u, "admin") /\ c.user_id # u.id
\* export_docx: the same test.
ExportForbidden(u, c) == ~has_role(u, "admin") /\ c.user_id # u.id

\* The deleted_at == None filter left out.
IndexQueryWithDeleted(db, u) == {c \in db : has_role(u, "admin") \/ c.user_id = u.id}

\* index: deleted_at == None, and user_id == current_user.id unless admin.
IndexQuery(db, u) ==
  {c \in db : c.deleted_at = NoTime /\ (has_role(u, "admin") \/ c.user_id = u.id)}

\* export_all_docx: the same rows, by two queries.
ExportAllQuery(db, u) ==
  IF has_role(u, "admin")
  THEN {c \in db : c.deleted_at = NoTime}
  ELSE {c \in db : c.user_id = u.id /\ c.deleted_at = NoTime}

\* export_excel: the current user's own rows, admin or not.
ExportExcelQuery(db, u) == {c \in db : c.user_id = u.id /\ c.deleted_at = NoTime}

\* export_excel_all (admins only): every live row.
ExportExcelAllQuery(db) == {c \in db : c.deleted_at = NoTime}

\* reports.contract_report: every live row created in the month asked for.
\* The month a timestamp lies in: two readings of the clock to a month.
MonthOf(t) == (t + 1) \div 2
ReportQuery(db, month) == {c \in db : c.deleted_at = NoTime /\ MonthOf(c.created_at) = month}


\* ---------------------------------------------------------- the forms tried
WithNumber(n) == [BaseForm EXCEPT !.contract_number = n]
WithVat(tax, code, org) ==
  [BaseForm EXCEPT !.tax_percentage = tax, !.deduct_tax_code = code,
                   !.vat_organization_name = org]
WithFee(fee) == [BaseForm EXCEPT !.total_fee_usd = fee]
Installment(description, dueDate) ==
  [description |-> description, deliverables |-> Deliverable, dueDate |-> dueDate]
\* A row the user left half filled: no deliverables.
HalfFilled(description, dueDate) ==
  [description |-> description, deliverables |-> Empty, dueDate |-> dueDate]
WithInstallments(rows) == [BaseForm EXCEPT !.installments = rows]

\* The forms whose contract number varies: the lives of the contracts are
\* explored with these.
NumberForms ==
  << BaseForm, WithNumber(Num002), WithNumber(NumPadded), WithNumber(NumShort) >>

\* The forms that differ from BaseForm in what the validation looks at.
ValidationForms ==
  << WithNumber(NumTrailing),
     WithNumber(Empty),
     WithVat(Tax0, TinGood, OrgForum),
     WithVat(Tax0, Empty, OrgForum),
     WithVat(Tax0, TinLower, OrgForum),
     WithVat(Tax0, TinLong, OrgForum),
     WithVat(Tax0, TinGood, Empty),
     WithVat(Tax0, TinGood, OrgCoop),
     WithVat(Tax15, TinGood, OrgForum),
     WithVat(Tax7, Empty, Empty),
     WithVat(NotANumber, Empty, Empty),
     WithVat(Empty, Empty, Empty),
     WithFee(FeeNegative),
     WithFee(FeeZero),
     WithFee(Empty),
     WithFee(NotANumber),
     WithInstallments(<< Installment(DescHalf, DateJan), Installment(DescHalf, DateJun) >>),
     WithInstallments(<< Installment(DescSixty, DateJun) >>),
     WithInstallments(<< Installment(DescHalf, DateJan), Installment(DescSixty, DateJun) >>),
     WithInstallments(<< Installment(DescNoPercent, DateJun) >>),
     WithInstallments(<< Installment(DescHalf, DateJan), Installment(DescNoPercent, DateJun) >>),
     WithInstallments(<< Installment(DescNear, DateJun) >>),
     WithInstallments(<< Installment(DescFull, DateFeb30) >>),
     WithInstallments(<< HalfFilled(DescFull, DateJun) >>),
     WithInstallments(<< Installment(DescFull, DateJun), HalfFilled(DescNoPercent, DateJun) >>),
     WithInstallments(<< Installment(DescFull, DateJun), HalfFilled(DescHalf, DateJun) >>),
     WithInstallments(<< >>),
     [BaseForm EXCEPT !.project_title = Empty],
     [BaseForm EXCEPT !.party_a[1].name = NameDigit, !.party_a_signer = NameDigit],
     [BaseForm EXCEPT !.party_a[1].position = PosDigit],
     [BaseForm EXCEPT !.party_a_signer = NameDara],
     [BaseForm EXCEPT !.party_b_signature_name_confirm = NameSok],
     [BaseForm EXCEPT !.party_b_select = NameDara],
     [BaseForm EXCEPT !.focal[1].phone = PhoneShort],
     [BaseForm EXCEPT !.focal[1].email = EmailNoTld],
     [BaseForm EXCEPT !.focal = << >>],
     [BaseForm EXCEPT !.agreement_start_date = DateJun, !.agreement_end_date = DateJan],
     [BaseForm EXCEPT !.agreement_start_date = DateFeb30],
     [BaseForm EXCEPT !.party_a = << >>] >>

\* request.form of the POST a request names by its place in this table.
Forms == NumberForms \o ValidationForms

LifeForms == 1..Len(NumberForms)
AllForms == 1..Len(Forms)

\* What the handlers compute from a form alone: form_data, whether float()
\* raises, and the messages of the checks that do not read the database.
CheckedData(raises, fd) ==
  [form_data |-> fd,
   raises |-> raises,
   create_before |-> CreateBefore(fd),
   update_before |-> UpdateBefore(fd),
   after |-> AfterDuplicateMessage(fd)]

CheckedForm(form) == CheckedData(FloatRaises(form), FormData(form))

\* The same, form by form of the table.
Checked == [i \in AllForms |-> CheckedForm(Forms[i])]

\* create: the message of the first check that rejects the form, or Ok.
CreateValidate(checked, db) ==
  FirstMessage(<<
    checked.create_before,
    IF CreateDuplicate(db, checked.form_data.contract_number)
    THEN "Contract number already exists." ELSE Ok,
    checked.after >>)

\* update: the message of the first check that rejects the form, or Ok.
UpdateValidate(checked, db, contract_id) ==
  FirstMessage(<<
    checked.update_before,
    IF UpdateDuplicate(db, checked.form_data.contract_number, contract_id)
    THEN "Contract number already exists." ELSE Ok,
    checked.after >>)

\* -------------------------------------------------------------------- state
VARIABLES
  contracts,      \* the rows of table contracts
  notifications,  \* the rows of table notifications
  clock,          \* the next reading of datetime.now() / utcnow()
  request,        \* the request being answered
  response,       \* what the handler answered
  inflight        \* the create requests between their duplicate query and their commit

vars == <<contracts, notifications, clock, request, response, inflight>>

Ids(rows) == {c.id : c \in rows}
Row(id) == CHOOSE c \in contracts : c.id = id
Replace(db, c) == {IF x.id = c.id THEN c ELSE x : x \in db}

\* form: the place of request.form in Forms (NoForm when the request has none).
NoForm == 0
Req(op, u, cid, method, form, search) ==
  [op |-> op, user |-> u.id, cid |-> cid, method |-> method, form |-> form, search |-> search]

\* message: the text flashed ("" when nothing is flashed); contracts: the ids of
\* the rows whose columns the answer carries; last_contract: the id of the row
\* whose number the answer carries as last_contract_number / the default number.
Resp(message, shown, last) ==
  [message |-> message, contracts |-> shown, last_contract |-> last]

NotFound == "404 Not Found"
Created == "Contract created successfully!"
Updated == "Contract updated successfully!"
Deleted == "Contract deleted successfully!"

Init ==
  /\ contracts = {}
  /\ notifications = {}
  /\ clock = 1
  /\ request = Req("none", [id |-> 0], 0, "GET", NoForm, Empty)
  /\ response = Resp("", {}, {})
  /\ inflight = {}

\* --------------------------------------------------------------- the routes
\* contracts.create; limit bounds the table.
Create(u, method, form, limit) ==
  LET checked == Checked[form]
      msg == CreateValidate(checked, contracts)
      new == NewContract(Cardinality(contracts) + 1, u, checked.form_data, clock)
  IN  /\ request' = Req("create", u, 0, method, form, Empty)
      /\ UNCHANGED inflight
      /\ IF method = "GET"
         THEN /\ response' = Resp("", {}, LastContract(contracts))
              /\ UNCHANGED <<contracts, notifications, clock>>
         ELSE IF checked.raises
         THEN /\ response' = Resp("An error occurred while creating the contract.",
                                  {}, LastContract(contracts))
              /\ UNCHANGED <<contracts, notifications, clock>>
         ELSE IF msg # Ok
         THEN /\ response' = Resp(msg, {}, LastContract(contracts))
              /\ UNCHANGED <<contracts, notifications, clock>>
         ELSE /\ Cardinality(contracts) < limit
              /\ contracts' = contracts \cup {new}
              /\ notifications' = notifications \cup NewNotifications(u, new)
              /\ clock' = clock + 1
              /\ response' = Resp(Created, {}, {})

\* contracts.create served by several workers, first part: the form is read and
\* validated and the duplicate query is made; a form that passes is held by its
\* worker (slot) until the commit.  A form that fails is answered at once.
CreateQuery(u, form, slot) ==
  LET checked == Checked[form]
      msg == CreateValidate(checked, contracts)
  IN  /\ slot \notin {r.slot : r \in inflight}
      /\ request' = Req("create", u, 0, "POST", form, Empty)
      /\ IF checked.raises
         THEN /\ response' = Resp("An error occurred while creating the contract.",
                                  {}, LastContract(contracts))
              /\ UNCHANGED inflight
         ELSE IF msg # Ok
         THEN /\ response' = Resp(msg, {}, LastContract(contracts))
              /\ UNCHANGED inflight
         ELSE /\ response' = Resp("", {}, {})
              /\ inflight' = inflight \cup {[slot |-> slot, user |-> u, form |-> form]}
      /\ UNCHANGED <<contracts, notifications, clock>>

\* contracts.create, second part: the row is built, added and committed, the
\* admins are notified and the success is flashed; limit bounds the table.
CreateCommit(r, limit) ==
  LET new == NewContract(Cardinality(contracts) + 1, r.user, Checked[r.form].form_data, clock)
  IN  /\ r \in inflight
      /\ Cardinality(contracts) < limit
      /\ request' = Req("create", r.user, 0, "POST", r.form, Empty)
      /\ contracts' = contracts \cup {new}
      /\ notifications' = notifications \cup NewNotifications(r.user, new)
      /\ clock' = clock + 1
      /\ response' = Resp(Created, {}, {})
      /\ inflight' = inflight \ {r}

\* update with the columns assigned and committed before the form is validated.
UpdateAssignsFirst(u, cid, method, form) ==
  LET checked == Checked[form]
      msg == UpdateValidate(checked, contracts, cid)
  IN  /\ UNCHANGED inflight
      /\ request' = Req("update", u, cid, method, form, Empty)
      /\ IF cid \notin Ids(contracts) \/ method = "GET" \/ checked.raises
         THEN /\ response' = Resp(NotFound, {}, {})
              /\ UNCHANGED <<contracts, notifications, clock>>
         ELSE /\ contracts' = Replace(contracts, UpdatedContract(Row(cid), checked.form_data))
              /\ response' = Resp(IF msg # Ok THEN msg ELSE Updated, {}, {})
              /\ UNCHANGED <<notifications, clock>>

\* contracts.update
Update(u, cid, method, form) ==
  LET checked == Checked[form]
      msg == UpdateValidate(checked, contracts, cid)
  IN  /\ request' = Req("update", u, cid, method, form, Empty)
      /\ UNCHANGED inflight
      /\ IF cid \notin Ids(contracts)
         THEN /\ response' = Resp(NotFound, {}, {})
              /\ UNCHANGED <<contracts, notifications, clock>>
         ELSE IF UpdateForbidden(u, Row(cid))
         THEN /\ response' = Resp("You are not authorized to update this contract.", {}, {})
              /\ UNCHANGED <<contracts, notifications, clock>>
         ELSE IF IsDeleted(Row(cid))
         THEN /\ response' = Resp("This contract has been deleted and cannot be updated.", {}, {})
              /\ UNCHANGED <<contracts, notifications, clock>>
         ELSE IF method = "GET"
         THEN /\ response' = Resp("", {cid}, {})
              /\ UNCHANGED <<contracts, notifications, clock>>
         ELSE IF checked.raises
         THEN /\ response' = Resp("An error occurred while updating the contract.", {}, {})
              /\ UNCHANGED <<contracts, notifications, clock>>
         ELSE IF msg # Ok
         THEN /\ response' = Resp(msg, {}, {})
              /\ UNCHANGED <<contracts, notifications, clock>>
         ELSE /\ contracts' = Replace(contracts, UpdatedContract(Row(cid), checked.form_data))
              /\ response' = Resp(Updated, {}, {})
              /\ UNCHANGED <<notifications, clock>>

\* contracts.delete
Delete(u, cid) ==
  /\ request' = Req("delete", u, cid, "POST", NoForm, Empty)
  /\ UNCHANGED inflight
  /\ IF cid \notin Ids(contracts)
     THEN /\ response' = Resp("An error occurred while deleting the contract.", {}, {})
          /\ UNCHANGED <<contracts, notifications, clock>>
     ELSE IF DeleteForbidden(u, Row(cid))
     THEN /\ response' = Resp("You are not authorized to delete this contract.", {}, {})
          /\ UNCHANGED <<contracts, notifications, clock>>
     ELSE IF IsDeleted(Row(cid))
     THEN /\ response' = Resp("This contract has already been deleted.", {}, {})
          /\ UNCHANGED <<contracts, notifications, clock>>
     ELSE /\ contracts' = Replace(contracts, DeletedContract(Row(cid), clock))
          /\ clock' = clock + 1
          /\ response' = Resp(Deleted, {}, {})
          /\ UNCHANGED notifications

\* contracts.view
View(u, cid) ==
  /\ request' = Req("view", u, cid, "GET", NoForm, Empty)
  /\ UNCHANGED inflight
  /\ response' =
       IF cid \notin Ids(contracts)
       THEN Resp("An error occurred while viewing the contract.", {}, {})
       ELSE IF ViewForbidden(u, Row(cid))
       THEN Resp("You are not authorized to view this contract.", {}, {})
       ELSE IF IsDeleted(Row(cid))
       THEN Resp("This contract has been deleted and cannot be viewed.", {}, {})
       ELSE Resp("", {cid}, {})
  /\ UNCHANGED <<contracts, notifications, clock>>

\* contracts.export_docx
ExportDocx(u, cid) ==
  /\ request' = Req("export_docx", u, cid, "GET", NoForm, Empty)
  /\ UNCHANGED inflight
  /\ response' =
       IF cid \notin Ids(contracts)
       THEN Resp("An error occurred while exporting the contract.", {}, {})
       ELSE IF ExportForbidden(u, Row(cid))
       THEN Resp("You are not authorized to export this contract.", {}, {})
       ELSE IF IsDeleted(Row(cid))
       THEN Resp("This contract has been deleted and cannot be exported.", {}, {})
       ELSE Resp("", {cid}, {})
  /\ UNCHANGED <<contracts, notifications, clock>>

\* contracts.index
Index(u, search) ==
  /\ request' = Req("index", u, 0, "GET", NoForm, search)
  /\ UNCHANGED inflight
  /\ notifications' = IF has_role(u, "admin") THEN MarkRead(notifications, u)
                      ELSE notifications
  /\ response' = Resp("", Ids({c \in IndexQuery(contracts, u) : SearchMatches(c, search)}),
                      LastContract(contracts))
  /\ UNCHANGED <<contracts, clock>>

\* contracts.mark_notifications_read
MarkNotificationsRead(u) ==
  /\ request' = Req("mark_notifications_read", u, 0, "POST", NoForm, Empty)
  /\ UNCHANGED inflight
  /\ IF ~has_role(u, "admin")
     THEN /\ response' = Resp("Unauthorized", {}, {})
          /\ UNCHANGED notifications
     ELSE /\ response' = Resp("", {}, {})
          /\ notifications' = MarkRead(notifications, u)
  /\ UNCHANGED <<contracts, clock>>

\* contracts.export_all_docx
ExportAllDocx(u) ==
  /\ request' = Req("export_all_docx", u, 0, "GET", NoForm, Empty)
  /\ UNCHANGED inflight
  /\ response' = IF ExportAllQuery(contracts, u) = {}
                 THEN Resp("No contracts available to export.", {}, {})
                 ELSE Resp("", Ids(ExportAllQuery(contracts, u)), {})
  /\ UNCHANGED <<contracts, notifications, clock>>

\* contracts.export_excel
ExportExcel(u, search) ==
  /\ request' = Req("export_excel", u, 0, "GET", NoForm, search)
  /\ UNCHANGED inflight
  /\ response' = Resp("", Ids({c \in ExportExcelQuery(contracts, u) :
                                 SearchMatches(c, search) /\ c.project_title # Rejected}), {})
  /\ UNCHANGED <<contracts, notifications, clock>>

\* contracts.export_excel_all
ExportExcelAll(u, search) ==
  /\ request' = Req("export_excel_all", u, 0, "GET", NoForm, search)
  /\ UNCHANGED inflight
  /\ response' =
       IF ~has_role(u, "admin")
       THEN Resp("You do not have permission to export all contracts.", {}, {})
       ELSE IF {c \in ExportExcelAllQuery(contracts) : SearchMatches(c, search)} = {}
       THEN Resp("No contracts available to export.", {}, {})
       ELSE Resp("", Ids({c \in ExportExcelAllQuery(contracts) :
                            SearchMatches(c, search) /\ c.project_title # Rejected}), {})
  /\ UNCHANGED <<contracts, notifications, clock>>

\* reports.contract_report for the month asked for
ContractReport(u, month) ==
  /\ request' = Req("contract_report", u, month, "GET", NoForm, Empty)
  /\ UNCHANGED inflight
  /\ response' = Resp("", Ids(ReportQuery(contracts, month)), {})
  /\ UNCHANGED <<contracts, notifications, clock>>

\* ------------------------------------------------------------ specifications
\* A GET carries no form; a POST carries one of the forms given.
Submissions(forms) == {<<"GET", NoForm>>} \cup {<<"POST", f>> : f \in forms}

Searches == {Empty, Search002}
Months == 1..MonthOf(2 * MaxContracts)
CidArgs == 1..MaxContracts

\* The lives of the contracts: every route, every user, the number forms.
Next ==
  \/ \E u \in Users, s \in Submissions(LifeForms) : Create(u, s[1], s[2], MaxContracts)
  \/ \E u \in Users, cid \in CidArgs, s \in Submissions(LifeForms) : Update(u, cid, s[1], s[2])
  \/ \E u \in Users, cid \in CidArgs : Delete(u, cid)
  \/ \E u \in Users, cid \in CidArgs : View(u, cid)
  \/ \E u \in Users, cid \in CidArgs : ExportDocx(u, cid)
  \/ \E u \in Users, q \in Searches : Index(u, q)
  \/ \E u \in Users : MarkNotificationsRead(u)
  \/ \E u \in Users : ExportAllDocx(u)
  \/ \E u \in Users, q \in Searches : ExportExcel(u, q)
  \/ \E u \in Users, q \in Searches : ExportExcelAll(u, q)
  \/ \E u \in Users, month \in Months : ContractReport(u, month)

Spec == Init /\ [][Next]_vars

\* The validation: one user submits every form of the table.
FormUsers == {u \in Users : u.id = 2}

NextForm ==
  \/ \E u \in FormUsers, s \in Submissions(AllForms) : Create(u, s[1], s[2], MaxFormContracts)
  \/ \E u \in FormUsers, cid \in 1..MaxFormContracts, s \in Submissions(AllForms) :
       Update(u, cid, s[1], s[2])
  \/ \E u \in FormUsers, cid \in 1..MaxFormContracts : Delete(u, cid)

SpecForm == Init /\ [][NextForm]_vars

\* Concurrent requests: create is served by MaxInflight workers whose database
\* operations interleave; delete runs between them.
Slots == 1..MaxInflight

NextConc ==
  \/ \E u \in Users, form \in LifeForms, slot \in Slots : CreateQuery(u, form, slot)
  \/ \E r \in inflight : CreateCommit(r, MaxContracts)
  \/ \E u \in Users, cid \in CidArgs : Delete(u, cid)

SpecConc == Init /\ [][NextConc]_vars

\* ------------------------------------------------------------- properties
\* The account a request ran as.
UserOf(id) == CHOOSE u \in Users : u.id = id
NonAdminRequest ==
  request.user \in {u.id : u \in Users} /\ ~has_role(UserOf(request.user), "admin")

\* The outcomes that are no error: a page without a flash, or a success flash.
Successes == {Created, Updated, Deleted}
ErrorOutcome(r) == r.message \notin Successes \cup {""} /\ r.contracts = {}

\* request' is a POST of a form to op.
Posted(op) == request'.op = op /\ request'.method = "POST" /\ request'.form # NoForm
\* The step stores nothing and does not flash a success.
NothingStored == contracts' = contracts /\ response'.message \notin Successes

\* create is answering a form that passes every one of its checks.
CreatePasses ==
  /\ Posted("create")
  /\ ~Checked[request'.form].raises
  /\ CreateValidate(Checked[request'.form], contracts) = Ok

\* The step stores exactly one new row, owned by the user of the request,
\* numbered number, and flashes the success.
StoresOne(number) ==
  /\ \E c \in contracts' :
       /\ c.id \notin Ids(contracts)
       /\ contracts' = contracts \cup {c}
       /\ c.user_id = request'.user
       /\ c.contract_number = number
  /\ response'.message = "Contract created successfully!"

SubmittedNumber == strip(Forms[request'.form].contract_number)

\* C2: no two contracts with deleted_at = None have the same contract_number;
\* create rejects a number held by a non-deleted contract, update one held by
\* a different non-deleted contract.
C2_NumbersUnique ==
  /\ [](\A c, d \in Live(contracts) : c.contract_number = d.contract_number => c.id = d.id)
  /\ [][/\ (Posted("create") /\ \E c \in Live(contracts) : c.contract_number = SubmittedNumber)
           => NothingStored
        /\ (Posted("update") /\ \E c \in Live(contracts) :
              c.contract_number = SubmittedNumber /\ c.id # request'.cid)
           => NothingStored]_vars

\* C2's case: two contracts are live and the last submission was refused for
\* its number.
C2_Witness ==
  /\ Cardinality(Live(contracts)) = 2
  /\ request.op = "update"
  /\ response.message = "Contract number already exists."

\* request' names contract c and comes from a user who is no admin and does
\* not own it.
ByStranger(c) ==
  /\ request'.cid = c.id
  /\ ~has_role(UserOf(request'.user), "admin")
  /\ c.user_id # request'.user

\* C3: contracts.update and contracts.delete by a user without the admin role
\* on a contract of another user change no field of that contract.
C3_StrangersChangeNothing ==
  [][\A c \in contracts :
       (request'.op \in {"update", "delete"} /\ ByStranger(c)) => c \in contracts']_vars

\* C3's case: a user who is no admin has just posted a valid form to update
\* a live contract of another user, and was refused.
C3_Witness ==
  /\ request.op = "update"
  /\ request.method = "POST"
  /\ response.message = "You are not authorized to update this contract."
  /\ \E c \in Live(contracts) : c.id = request.cid /\ c.user_id # request.user

\* The routes that answer with a list of contracts.
Lists == {"index", "export_all_docx", "export_excel", "export_excel_all", "contract_report"}

\* C4 as stated: a user without the admin role never receives the data of a
\* contract owned by another user.
C4_NoForeignData ==
  NonAdminRequest => \A c \in contracts : c.id \in response.contracts => c.user_id = request.user

\* C4, the four routes it names: view and export_docx refuse a contract of
\* another user, index and export_all_docx return only the user's own.
C4_NamedRoutes ==
  (NonAdminRequest /\ request.op \in {"view", "export_docx", "index", "export_all_docx"})
    => \A c \in contracts : c.id \in response.contracts => c.user_id = request.user

\* C5: delete sets deleted_at and removes no row; a deleted contract stays
\* deleted in every later state and is in no list of index, export_all_docx,
\* export_excel, export_excel_all or reports.contract_report.
C5_DeletedForGood ==
  /\ [](request.op \in Lists =>
          \A c \in contracts : c.id \in response.contracts => c.deleted_at = NoTime)
  /\ [][/\ \A c \in contracts : \E d \in contracts' :
              d.id = c.id /\ (c.deleted_at # NoTime => d.deleted_at # NoTime)
        /\ (request'.op = "delete" /\ response'.message = Deleted)
             => \E d \in contracts' : d.id = request'.cid /\ d.deleted_at # NoTime]_vars

\* C5's case: a contract is deleted, and its owner has just listed the
\* contracts and got another one but not this one.
C5_Witness ==
  \E c \in contracts :
    /\ c.deleted_at # NoTime
    /\ request.op = "index"
    /\ request.user = c.user_id
    /\ response.contracts # {}
    /\ c.id \notin response.contracts

\* C6: update, delete, view and export_docx on a contract whose deleted_at is
\* set end with an error and leave every field of it unchanged.
C6_DeletedRefused ==
  [][\A c \in contracts :
       (/\ c.deleted_at # NoTime
        /\ request'.op \in {"update", "delete", "view", "export_docx"}
        /\ request'.cid = c.id)
       => (c \in contracts' /\ ErrorOutcome(response'))]_vars

\* C6's case: the owner has just posted a form to update a deleted contract.
C6_Witness ==
  /\ request.op = "update"
  /\ request.method = "POST"
  /\ response.message = "This contract has been deleted and cannot be updated."
  /\ \E c \in contracts : c.id = request.cid /\ c.deleted_at # NoTime /\ c.user_id = request.user

\* request' is a form posted to create or update.
Submission == Posted("create") \/ Posted("update")
SubmittedForm == Forms[request'.form]

\* NGOF/YYYY-NNN and nothing else.
ExactNumber(s) == Len(s) = 13 /\ NumberFormatRe(s)

\* C7 as stated: every stored contract number has exactly the form
\* NGOF/YYYY-NNN, for create and update reject every other number.
C7_NumbersExact ==
  /\ [](\A c \in contracts : ExactNumber(c.contract_number))
  /\ [][(Submission /\ ~ExactNumber(SubmittedNumber)) => NothingStored]_vars

\* The percentage of an installment: found, and its value in thousandths.
Percentage(inst) ==
  [found |-> PercentSearch(inst.description).found,
   val |-> ParseFloat(PercentSearch(inst.description).group).val]

RECURSIVE SumOf(_)
SumOf(vals) == IF Len(vals) = 0 THEN 0 ELSE Head(vals) + SumOf(Tail(vals))

\* Every installment has a '(N%)' part and the percentages sum to 100 +- 0.01.
SumsTo100(insts) ==
  /\ \A i \in 1..Len(insts) : Percentage(insts[i]).found
  /\ Abs(SumOf([i \in 1..Len(insts) |-> Percentage(insts[i]).val]) - 100000) <= 10

\* The rows of a posted form no column of which is blank.
FilledRows(rows) ==
  SelectSeq(rows, LAMBDA r : \A k \in DOMAIN r : strip(r[k]) # Empty)

\* C8 (as amended): the installments of every stored contract have percentages
\* that sum to 100 within 0.01; a submission is rejected when, among its
\* installment rows with no blank column, one lacks '(N%)' or the sum is other.
C8_InstallmentsSum ==
  /\ [](\A c \in contracts : SumsTo100(c.payment_installments))
  /\ [][(Submission /\ ~SumsTo100(FilledRows(SubmittedForm.installments)))
          => NothingStored]_vars

\* C8 as stated: a submission is rejected when one of its installments lacks
\* '(N%)' or the sum over its installments is other than 100.
C8_EveryRowCounts ==
  [][(Submission /\ ~SumsTo100(SubmittedForm.installments)) => NothingStored]_vars

\* C8's case: a contract is stored whose two installments are 50% each, and
\* one whose only installment is 60% has just been refused.
C8_Witness ==
  /\ \E c \in contracts : Len(c.payment_installments) = 2
  /\ request.op = "update"
  /\ request.form # NoForm
  /\ Forms[request.form].installments = << Installment(DescSixty, DateJun) >>
  /\ response.message = "Total percentage of payment installments must equal 100%."

\* C9: every stored contract has tax_percentage in {0, 5, 10, 15, 20} and a
\* fee that is not negative; a submission with another tax or a negative fee
\* is rejected.
C9_TaxAndFee ==
  /\ [](\A c \in contracts :
          c.tax_percentage \in {0, 5000, 10000, 15000, 20000} /\ c.total_fee_usd >= 0)
  /\ [][(/\ Submission
          /\ \/ Checked[request'.form].raises
             \/ FloatOr(SubmittedForm.tax_percentage, 15000) \notin {0, 5000, 10000, 15000, 20000}
             \/ FloatOr(SubmittedForm.total_fee_usd, 0) < 0)
          => NothingStored]_vars

\* C9's case: a contract is stored, and a form with a tax of 7% has just been
\* refused for its tax.
C9_Witness ==
  /\ contracts # {}
  /\ request.form # NoForm
  /\ Forms[request.form].tax_percentage = Tax7
  /\ response.message = "Tax percentage must be one of 0, 5, 10, 15, or 20."

\* C10: a stored contract with tax 0 has a VAT TIN that is not empty, at most
\* 50 characters long and made of uppercase letters, digits and hyphens, and
\* an organization name that is not empty; one with another tax has None for
\* both, whatever the form contained.
C10_VatFields ==
  \A c \in contracts :
    IF c.tax_percentage = 0
    THEN /\ c.deduct_tax_code # None
         /\ Len(c.deduct_tax_code) \in 1..50
         /\ \A i \in 1..Len(c.deduct_tax_code) : c.deduct_tax_code[i] \in Upper \cup Digit \cup {"-"}
         /\ c.vat_organization_name # None
         /\ Len(c.vat_organization_name) > 0
    ELSE c.deduct_tax_code = None /\ c.vat_organization_name = None

\* C10's case: update has just stored a form that carries a TIN and an
\* organization name with a tax of 15%.
C10_Witness ==
  /\ request.op = "update"
  /\ response.message = Updated
  /\ request.form # NoForm
  /\ Forms[request.form] = WithVat(Tax15, TinGood, OrgForum)
  /\ \E c \in contracts : c.id = request.cid /\ c.deduct_tax_code = None

\* C11 as stated: under interleaved create requests too, no two contracts with
\* deleted_at = None have the same contract_number (of two interleaved creates
\* carrying the same number at most one stores a contract).
C11_ConcurrentNumbersUnique ==
  \A c, d \in contracts :
    (c.id # d.id /\ c.deleted_at = NoTime /\ d.deleted_at = NoTime)
      => c.contract_number # d.contract_number

\* C12: a create or update submission that does not end with its success
\* outcome (it was rejected by a validation check) leaves the set of contracts,
\* every field of every contract and the set of notifications unchanged.
C12_RejectionChangesNothing ==
  [][(Submission /\ response'.message \notin Successes)
      => (contracts' = contracts /\ notifications' = notifications)]_vars

\* C12's case: a contract and its notification are stored, and an update of
\* that contract has just been rejected by a validation check (the
\* confirmation of the Party B name does not match).
C12_Witness ==
  /\ contracts # {}
  /\ notifications # {}
  /\ request.op = "update"
  /\ request.method = "POST"
  /\ request.form # NoForm
  /\ response.message = "Party B signature name confirmation does not match."

\* The step is an update, by the same user, of the contract the last request
\* created, with the form that request carried, unchanged.
ResubmitsCreated ==
  /\ request.op = "create"
  /\ response.message = Created
  /\ Posted("update")
  /\ request'.form = request.form
  /\ request'.user = request.user
  /\ \E c \in contracts : c.id = request'.cid /\ c.created_at = clock - 1

\* create would accept the form for a new contract, its number being unused.
CreateWouldAccept(form) ==
  ~Checked[form].raises /\ CreateValidate(Checked[form], {}) = Ok

\* One half of C13: a form that update accepts would be accepted by create
\* given an unused contract number.
C13_UpdateImpliesCreate ==
  [][(Posted("update") /\ response'.message = Updated)
      => CreateWouldAccept(request'.form)]_vars

\* C13 as stated: create and update apply the same validation: a form that
\* create accepted for a new contract is accepted by update when submitted
\* unchanged for that contract, and a form that update accepts would be
\* accepted by create given an unused contract number.
C13_SameValidation ==
  /\ [][ResubmitsCreated => response'.message = Updated]_vars
  /\ [][(Posted("update") /\ response'.message = Updated)
          => CreateWouldAccept(request'.form)]_vars

====
